---- MODULE Spec2Model ----
(***************************************************************************)
(* Follow / follow-request state machine and pin visibility of mapin-api.  *)
(*                                                                         *)
(* The relational store (tables users, follows, follow_requests, pins) is  *)
(* the shared state.  Every service method is an async handler: each       *)
(* awaited store round trip is one atomic step of the calling process, so  *)
(* handlers of different processes interleave between round trips.         *)
(***************************************************************************)
EXTENDS Integers, FiniteSets, Sequences, Bags, TLC

\* ---------------------------------------------------------------------------
\* Bounds of the model
\* ---------------------------------------------------------------------------

\* Number of follows rows that may ever be inserted (ids 1..MaxFollowId).
MaxFollowId == 2

\* Number of follow_requests rows that may ever be inserted (ids 1..MaxRequestId).
MaxRequestId == 2

\* Number of pins rows that may ever be inserted (ids 1..MaxPinId).
MaxPinId == 2

\* ---------------------------------------------------------------------------
\* Identities
\* ---------------------------------------------------------------------------

\* Ids of registered users.
Registered == {"u1", "u2"}

\* An id that is no row of users (a stale or mistyped id).
Ghost == "u0"

UserIds == Registered \cup {Ghost}

\* request.user is undefined: an unauthenticated caller.
Anonymous == "anonymous"

\* Handler invocations that may overlap.
Procs == {"p1", "p2"}

\* The only process of the sequential specifications.
SeqProcs == {"p1"}

\* ---------------------------------------------------------------------------
\* Outcomes of a call: the value returned, or the message of the Error thrown
\* ---------------------------------------------------------------------------

SelfFollowError == "You cannot follow yourself"
AlreadyFollowingError == "Already following this user"
TargetNotFoundError == "User not found"
RequestAlreadyPendingError == "Follow request already pending"
NotFollowingError == "Not following this user"
NotAFollowerError == "User is not following you"
RequestNotFoundError == "Follow request not found"
CancelNotPendingError == "Can only cancel pending requests"
UnauthorizedError == "Unauthorized"
NotPendingError == "Request is not pending"

\* Errors raised by the store client, which no service method catches.
UniqueViolation == "P2002"
ForeignKeyViolation == "P2003"
RecordNotFound == "P2025"

StoreFaults == {UniqueViolation, ForeignKeyViolation, RecordNotFound}

VARIABLES
    users,          \* table users: id -> [isPrivate, bio]
    follows,        \* table follows: set of rows [id, followerId, followingId]
    followRequests, \* table follow_requests: rows [id, senderId, receiverId, status,
                    \* updated], updated meaning updated_at is later than created_at
    pins,           \* table pins: set of rows [id, authorId, isPublic, lat, lng]
    likes,          \* table likes: bag of rows [pinId, userId], the ids left out
    nextFollowId,   \* next fresh id of follows
    nextRequestId,  \* next fresh id of follow_requests
    nextPinId,      \* next fresh id of pins
    proc,           \* per process: the handler in flight, its arguments and locals
    reply           \* the call completed last: its arguments and its outcome

vars == <<users, follows, followRequests, pins, likes, nextFollowId,
          nextRequestId, nextPinId, proc, reply>>

db == <<users, follows, followRequests, pins, likes, nextFollowId, nextRequestId,
        nextPinId>>

\* ---------------------------------------------------------------------------
\* Store primitives
\* ---------------------------------------------------------------------------

\* prisma.follow.findUnique({ followerId_followingId }): the matching rows.
FindFollow(followerId, followingId) ==
    {f \in follows : f.followerId = followerId /\ f.followingId = followingId}

\* prisma.followRequest.findUnique({ senderId_receiverId }): the matching rows.
FindRequest(senderId, receiverId) ==
    {r \in followRequests : r.senderId = senderId /\ r.receiverId = receiverId}

\* prisma.followRequest.findUnique({ id }): the matching rows.
FindRequestById(requestId) == {r \in followRequests : r.id = requestId}

\* The row findUnique hands back when there is one.
Pick(rows) == CHOOSE r \in rows : TRUE

\* Variant of FollowInsert: a follows table without its unique index.
FollowInsertNoUnique(followerId, followingId) ==
    IF followerId \notin DOMAIN users \/ followingId \notin DOMAIN users
    THEN ForeignKeyViolation
    ELSE "ok"

\* INSERT INTO follows: the constraint the store raises, or "ok".
FollowInsert(followerId, followingId) ==
    IF followerId \notin DOMAIN users \/ followingId \notin DOMAIN users
    THEN ForeignKeyViolation
    ELSE IF FindFollow(followerId, followingId) # {}
         THEN UniqueViolation
         ELSE "ok"

\* Variant of RequestInsert: a follow_requests table without its unique index.
RequestInsertNoUnique(senderId, receiverId) ==
    IF senderId \notin DOMAIN users \/ receiverId \notin DOMAIN users
    THEN ForeignKeyViolation
    ELSE "ok"

\* INSERT INTO follow_requests: the constraint the store raises, or "ok".
RequestInsert(senderId, receiverId) ==
    IF senderId \notin DOMAIN users \/ receiverId \notin DOMAIN users
    THEN ForeignKeyViolation
    ELSE IF FindRequest(senderId, receiverId) # {}
         THEN UniqueViolation
         ELSE "ok"

NewFollow(followerId, followingId) ==
    [id |-> nextFollowId, followerId |-> followerId, followingId |-> followingId]

NewRequest(senderId, receiverId) ==
    [id |-> nextRequestId, senderId |-> senderId, receiverId |-> receiverId,
     status |-> "PENDING", updated |-> FALSE]

\* UPDATE follow_requests SET status, updated_at WHERE id.
SetStatus(requestId, status) ==
    {IF r.id = requestId THEN [r EXCEPT !.status = status, !.updated = TRUE] ELSE r :
        r \in followRequests}

\* ---------------------------------------------------------------------------
\* Processes
\* ---------------------------------------------------------------------------

\* u, v: the user ids the call was given (v also holds request.senderId once
\* acceptFollowRequest has read it); id: the request id given, or the id of
\* the row the handler has read.
Idle == [pc |-> "idle", u |-> Ghost, v |-> Ghost, id |-> 0]

NoReply == [op |-> "none", u |-> Ghost, v |-> Ghost, id |-> 0, res |-> "none"]

\* A store round trip is begun only once the reply of the call that has just
\* returned is sent: the controller sends it in the tick in which the service
\* method returns or throws, before any other handler resumes.
Ready(p) == reply = NoReply /\ proc[p].pc = "idle"

At(p, pc) == reply = NoReply /\ proc[p].pc = pc

\* Handlers in flight that may still insert a follows row.
FollowWriters ==
    {q \in Procs : proc[q].pc \in {"followUser_findUser", "followUser_findRequest",
                                   "followUser_updateRequest", "followUser_createRequest",
                                   "followUser_createFollow",
                                   "acceptFollowRequest_transaction"}}

\* Handlers in flight that may still insert a follow_requests row.
RequestWriters ==
    {q \in Procs : proc[q].pc \in {"followUser_findUser", "followUser_findRequest",
                                   "followUser_updateRequest", "followUser_createRequest",
                                   "followUser_createFollow"}}

\* A new call is begun only while the id bounds leave room for its inserts.
RoomForFollow == nextFollowId + Cardinality(FollowWriters) <= MaxFollowId

RoomForRequest == nextRequestId + Cardinality(RequestWriters) <= MaxRequestId

\* The handler awaits its next round trip.
Await(p, pc, u, v, id) ==
    /\ proc' = [proc EXCEPT ![p] = [pc |-> pc, u |-> u, v |-> v, id |-> id]]
    /\ UNCHANGED reply

\* The handler returns res, or throws the Error whose message is res.
Return(p, op, u, v, id, res) ==
    /\ proc' = [proc EXCEPT ![p] = Idle]
    /\ reply' = [op |-> op, u |-> u, v |-> v, id |-> id, res |-> res]

\* A column that is NULL.
Null == "null"

Init ==
    /\ users \in [Registered -> [isPrivate : BOOLEAN, bio : {Null}]]
    /\ follows = {}
    /\ followRequests = {}
    /\ pins = {}
    /\ likes = EmptyBag
    /\ nextFollowId = 1
    /\ nextRequestId = 1
    /\ nextPinId = 1
    /\ proc = [p \in Procs |-> Idle]
    /\ reply = NoReply

\* ---------------------------------------------------------------------------
\* FollowService.followUser(followerId, followingId)
\* ---------------------------------------------------------------------------

\* Variant of followUser_findFollow: the target is looked up before anything else.
followUser_findFollowUserFirst(p) ==
    /\ Ready(p) /\ RoomForFollow /\ RoomForRequest
    /\ \E followerId \in UserIds, followingId \in UserIds :
          IF followingId \notin DOMAIN users
          THEN Return(p, "followUser", followerId, followingId, 0, TargetNotFoundError)
          ELSE IF followerId = followingId
               THEN Return(p, "followUser", followerId, followingId, 0, SelfFollowError)
               ELSE IF FindFollow(followerId, followingId) # {}
                    THEN Return(p, "followUser", followerId, followingId, 0,
                                AlreadyFollowingError)
                    ELSE Await(p, "followUser_findUser", followerId, followingId, 0)
    /\ UNCHANGED db


\* The call arrives: the self-follow guard, then
\* existingFollow = follow.findUnique(...), which throws when the edge exists.
followUser_findFollow(p) ==
    /\ Ready(p)
    /\ RoomForFollow
    /\ RoomForRequest
    /\ \E followerId \in UserIds, followingId \in UserIds :
          IF followerId = followingId
          THEN Return(p, "followUser", followerId, followingId, 0, SelfFollowError)
          ELSE IF FindFollow(followerId, followingId) # {}
               THEN Return(p, "followUser", followerId, followingId, 0,
                           AlreadyFollowingError)
               ELSE Await(p, "followUser_findUser", followerId, followingId, 0)
    /\ UNCHANGED db

\* Variant of PrivacyBranch: isPrivate ignored, every target followed directly.
PrivacyBranchAlwaysDirect(isPrivate) == "followUser_createFollow"

\* Variant of PrivacyBranch: isPrivate ignored, every target sent a request.
PrivacyBranchAlwaysRequest(isPrivate) == "followUser_findRequest"

\* if (targetUser.isPrivate): the round trip a target with this flag leads to.
PrivacyBranch(isPrivate) ==
    IF isPrivate THEN "followUser_findRequest" ELSE "followUser_createFollow"

\* targetUser = user.findUnique(...); throws when missing, else branches on isPrivate.
followUser_findUser(p) ==
    /\ At(p, "followUser_findUser")
    /\ IF proc[p].v \notin DOMAIN users
       THEN Return(p, "followUser", proc[p].u, proc[p].v, 0, TargetNotFoundError)
       ELSE Await(p, PrivacyBranch(users[proc[p].v].isPrivate), proc[p].u, proc[p].v, 0)
    /\ UNCHANGED db

\* Variant of RequestBranch: no REJECTED case, a rejected row is not reused.
RequestBranchNoResurrect(status) ==
    IF status = "PENDING" THEN "throw" ELSE "followUser_createRequest"

\* What followUser does next given the status of existingRequest ("NONE" for
\* null): PENDING throws, REJECTED is updated, anything else falls through to
\* followRequest.create.
RequestBranch(status) ==
    IF status = "PENDING" THEN "throw"
    ELSE IF status = "REJECTED" THEN "followUser_updateRequest"
    ELSE "followUser_createRequest"

\* existingRequest = followRequest.findUnique(...) and the branch on its status.
followUser_findRequest(p) ==
    /\ At(p, "followUser_findRequest")
    /\ LET rows == FindRequest(proc[p].u, proc[p].v)
           status == IF rows = {} THEN "NONE" ELSE Pick(rows).status
           next == RequestBranch(status)
       IN IF next = "throw"
          THEN Return(p, "followUser", proc[p].u, proc[p].v, 0, RequestAlreadyPendingError)
          ELSE Await(p, next, proc[p].u, proc[p].v,
                     IF next = "followUser_updateRequest" THEN Pick(rows).id ELSE 0)
    /\ UNCHANGED db

\* followRequest.update({ id: existingRequest.id }, { status: "PENDING" }).
followUser_updateRequest(p) ==
    /\ At(p, "followUser_updateRequest")
    /\ IF FindRequestById(proc[p].id) = {}
       THEN /\ Return(p, "followUser", proc[p].u, proc[p].v, 0, RecordNotFound)
            /\ UNCHANGED followRequests
       ELSE /\ followRequests' = SetStatus(proc[p].id, "PENDING")
            /\ Return(p, "followUser", proc[p].u, proc[p].v, 0, "request")
    /\ UNCHANGED <<users, follows, pins, nextFollowId, nextRequestId, nextPinId, likes>>

\* followRequest.create({ senderId, receiverId }) with the default status PENDING.
followUser_createRequest(p) ==
    /\ At(p, "followUser_createRequest")
    /\ LET err == RequestInsert(proc[p].u, proc[p].v)
       IN IF err = "ok"
          THEN /\ followRequests' = followRequests \cup {NewRequest(proc[p].u, proc[p].v)}
               /\ nextRequestId' = nextRequestId + 1
               /\ Return(p, "followUser", proc[p].u, proc[p].v, 0, "request")
          ELSE /\ Return(p, "followUser", proc[p].u, proc[p].v, 0, err)
               /\ UNCHANGED <<followRequests, nextRequestId>>
    /\ UNCHANGED <<users, follows, pins, nextFollowId, nextPinId, likes>>

\* follow.create({ followerId, followingId }).
followUser_createFollow(p) ==
    /\ At(p, "followUser_createFollow")
    /\ LET err == FollowInsert(proc[p].u, proc[p].v)
       IN IF err = "ok"
          THEN /\ follows' = follows \cup {NewFollow(proc[p].u, proc[p].v)}
               /\ nextFollowId' = nextFollowId + 1
               /\ Return(p, "followUser", proc[p].u, proc[p].v, 0, "follow")
          ELSE /\ Return(p, "followUser", proc[p].u, proc[p].v, 0, err)
               /\ UNCHANGED <<follows, nextFollowId>>
    /\ UNCHANGED <<users, followRequests, pins, nextRequestId, nextPinId, likes>>

\* ---------------------------------------------------------------------------
\* FollowService.unfollowUser(followerId, followingId)
\* ---------------------------------------------------------------------------

\* follow = follow.findUnique(...); throws when there is no edge.
unfollowUser_find(p) ==
    /\ Ready(p)
    /\ \E followerId \in Registered, followingId \in Registered :
          LET rows == FindFollow(followerId, followingId)
          IN IF rows = {}
             THEN Return(p, "unfollowUser", followerId, followingId, 0, NotFollowingError)
             ELSE Await(p, "unfollowUser_delete", followerId, followingId, Pick(rows).id)
    /\ UNCHANGED db

\* follow.delete({ id: follow.id }).
unfollowUser_delete(p) ==
    /\ At(p, "unfollowUser_delete")
    /\ IF \E f \in follows : f.id = proc[p].id
       THEN /\ follows' = {f \in follows : f.id # proc[p].id}
            /\ Return(p, "unfollowUser", proc[p].u, proc[p].v, 0, "true")
       ELSE /\ Return(p, "unfollowUser", proc[p].u, proc[p].v, 0, RecordNotFound)
            /\ UNCHANGED follows
    /\ UNCHANGED <<users, followRequests, pins, nextFollowId, nextRequestId, nextPinId, likes>>

\* ---------------------------------------------------------------------------
\* FollowService.removeFollower(userId, followerId)
\* ---------------------------------------------------------------------------

\* Variant of removeFollower_find: the pair looked up the other way round.
removeFollower_findReverse(p) ==
    /\ Ready(p)
    /\ \E userId \in Registered, followerId \in Registered :
          LET rows == FindFollow(userId, followerId)
          IN IF rows = {}
             THEN Return(p, "removeFollower", userId, followerId, 0, NotAFollowerError)
             ELSE Await(p, "removeFollower_delete", userId, followerId, Pick(rows).id)
    /\ UNCHANGED db

\* follow = follow.findUnique({ followerId, followingId: userId }).
removeFollower_find(p) ==
    /\ Ready(p)
    /\ \E userId \in Registered, followerId \in Registered :
          LET rows == FindFollow(followerId, userId)
          IN IF rows = {}
             THEN Return(p, "removeFollower", userId, followerId, 0, NotAFollowerError)
             ELSE Await(p, "removeFollower_delete", userId, followerId, Pick(rows).id)
    /\ UNCHANGED db

\* follow.delete({ id: follow.id }).
removeFollower_delete(p) ==
    /\ At(p, "removeFollower_delete")
    /\ IF \E f \in follows : f.id = proc[p].id
       THEN /\ follows' = {f \in follows : f.id # proc[p].id}
            /\ Return(p, "removeFollower", proc[p].u, proc[p].v, 0, "true")
       ELSE /\ Return(p, "removeFollower", proc[p].u, proc[p].v, 0, RecordNotFound)
            /\ UNCHANGED follows
    /\ UNCHANGED <<users, followRequests, pins, nextFollowId, nextRequestId, nextPinId, likes>>

\* ---------------------------------------------------------------------------
\* FollowService.cancelFollowRequest(senderId, receiverId)
\* ---------------------------------------------------------------------------

\* Variant of cancelFollowRequest_find: the row is deleted before its status is
\* looked at.
cancelFollowRequest_findDeletesFirst(p) ==
    /\ Ready(p)
    /\ \E senderId \in Registered, receiverId \in Registered :
          LET rows == FindRequest(senderId, receiverId)
          IN /\ followRequests' = followRequests \ rows
             /\ IF rows = {}
                THEN Return(p, "cancelFollowRequest", senderId, receiverId, 0,
                            RequestNotFoundError)
                ELSE IF Pick(rows).status # "PENDING"
                     THEN Return(p, "cancelFollowRequest", senderId, receiverId, 0,
                                 CancelNotPendingError)
                     ELSE Return(p, "cancelFollowRequest", senderId, receiverId, 0,
                                 "true")
    /\ UNCHANGED <<users, follows, pins, nextFollowId, nextRequestId, nextPinId, likes>>

\* Variant of cancelFollowRequest_find: no guard on the row's status.
cancelFollowRequest_findAnyStatus(p) ==
    /\ Ready(p)
    /\ \E senderId \in Registered, receiverId \in Registered :
          LET rows == FindRequest(senderId, receiverId)
          IN IF rows = {}
             THEN Return(p, "cancelFollowRequest", senderId, receiverId, 0,
                         RequestNotFoundError)
             ELSE Await(p, "cancelFollowRequest_delete", senderId, receiverId,
                        Pick(rows).id)
    /\ UNCHANGED db

\* request = followRequest.findUnique({ senderId_receiverId }) and the two guards.
cancelFollowRequest_find(p) ==
    /\ Ready(p)
    /\ \E senderId \in Registered, receiverId \in Registered :
          LET rows == FindRequest(senderId, receiverId)
          IN IF rows = {}
             THEN Return(p, "cancelFollowRequest", senderId, receiverId, 0,
                         RequestNotFoundError)
             ELSE IF Pick(rows).status # "PENDING"
                  THEN Return(p, "cancelFollowRequest", senderId, receiverId, 0,
                              CancelNotPendingError)
                  ELSE Await(p, "cancelFollowRequest_delete", senderId, receiverId,
                             Pick(rows).id)
    /\ UNCHANGED db

\* followRequest.delete({ id: request.id }).
cancelFollowRequest_delete(p) ==
    /\ At(p, "cancelFollowRequest_delete")
    /\ IF FindRequestById(proc[p].id) # {}
       THEN /\ followRequests' = {r \in followRequests : r.id # proc[p].id}
            /\ Return(p, "cancelFollowRequest", proc[p].u, proc[p].v, 0, "true")
       ELSE /\ Return(p, "cancelFollowRequest", proc[p].u, proc[p].v, 0, RecordNotFound)
            /\ UNCHANGED followRequests
    /\ UNCHANGED <<users, follows, pins, nextFollowId, nextRequestId, nextPinId, likes>>

\* ---------------------------------------------------------------------------
\* FollowService.acceptFollowRequest(receiverId, requestId)
\* ---------------------------------------------------------------------------

\* Request ids a caller may name: every id that can exist.
RequestIds == 1..MaxRequestId

\* request = followRequest.findUnique({ id }) and the three guards, in order.
acceptFollowRequest_find(p) ==
    /\ Ready(p)
    /\ RoomForFollow
    /\ \E receiverId \in Registered, requestId \in RequestIds :
          LET rows == FindRequestById(requestId)
          IN IF rows = {}
             THEN Return(p, "acceptFollowRequest", receiverId, Ghost, requestId,
                         RequestNotFoundError)
             ELSE IF Pick(rows).receiverId # receiverId
                  THEN Return(p, "acceptFollowRequest", receiverId, Ghost, requestId,
                              UnauthorizedError)
                  ELSE IF Pick(rows).status # "PENDING"
                       THEN Return(p, "acceptFollowRequest", receiverId, Ghost, requestId,
                                   NotPendingError)
                       ELSE Await(p, "acceptFollowRequest_transaction", receiverId,
                                  Pick(rows).senderId, requestId)
    /\ UNCHANGED db

\* Variant of AcceptTransaction: the update is an updateMany, which a missing
\* row does not fail.
AcceptTransactionUpdateMany(senderId, receiverId, requestId) ==
    FollowInsert(senderId, receiverId)

\* Outcome of $transaction([follow.create, followRequest.update]): the error of
\* the first statement that fails, which aborts the transaction, else "ok".
AcceptTransaction(senderId, receiverId, requestId) ==
    IF FollowInsert(senderId, receiverId) # "ok"
    THEN FollowInsert(senderId, receiverId)
    ELSE IF FindRequestById(requestId) = {}
         THEN RecordNotFound
         ELSE "ok"

\* Variant of AcceptKeepsFollow: the two writes issued one after the other
\* outside a transaction, so follow.create stays when the update fails.
AcceptKeepsFollowWithoutRollback(senderId, receiverId, outcome) ==
    FollowInsert(senderId, receiverId) = "ok"

\* Whether the row written by follow.create is committed, given the outcome
\* of the $transaction it is part of: only when every statement succeeded.
AcceptKeepsFollow(senderId, receiverId, outcome) == outcome = "ok"

\* The transaction commits both writes or none.
acceptFollowRequest_transaction(p) ==
    /\ At(p, "acceptFollowRequest_transaction")
    /\ LET senderId == proc[p].v
           receiverId == proc[p].u
           outcome == AcceptTransaction(senderId, receiverId, proc[p].id)
       IN /\ IF AcceptKeepsFollow(senderId, receiverId, outcome)
             THEN /\ follows' = follows \cup {NewFollow(senderId, receiverId)}
                  /\ nextFollowId' = nextFollowId + 1
             ELSE UNCHANGED <<follows, nextFollowId>>
          /\ IF outcome = "ok"
             THEN followRequests' = SetStatus(proc[p].id, "ACCEPTED")
             ELSE UNCHANGED followRequests
          /\ Return(p, "acceptFollowRequest", receiverId, Ghost, proc[p].id,
                    IF outcome = "ok" THEN "follow" ELSE outcome)
    /\ UNCHANGED <<users, pins, nextRequestId, nextPinId, likes>>

\* ---------------------------------------------------------------------------
\* FollowService.rejectFollowRequest(receiverId, requestId)
\* ---------------------------------------------------------------------------

\* Variant of rejectFollowRequest_find: the status is checked before the caller.
rejectFollowRequest_findStatusFirst(p) ==
    /\ Ready(p)
    /\ \E receiverId \in Registered, requestId \in RequestIds :
          LET rows == FindRequestById(requestId)
          IN IF rows = {}
             THEN Return(p, "rejectFollowRequest", receiverId, Ghost, requestId,
                         RequestNotFoundError)
             ELSE IF Pick(rows).status # "PENDING"
                  THEN Return(p, "rejectFollowRequest", receiverId, Ghost, requestId,
                              NotPendingError)
                  ELSE IF Pick(rows).receiverId # receiverId
                       THEN Return(p, "rejectFollowRequest", receiverId, Ghost, requestId,
                                   UnauthorizedError)
                       ELSE Await(p, "rejectFollowRequest_update", receiverId, Ghost,
                                  requestId)
    /\ UNCHANGED db

\* request = followRequest.findUnique({ id }) and the three guards, in order.
rejectFollowRequest_find(p) ==
    /\ Ready(p)
    /\ \E receiverId \in Registered, requestId \in RequestIds :
          LET rows == FindRequestById(requestId)
          IN IF rows = {}
             THEN Return(p, "rejectFollowRequest", receiverId, Ghost, requestId,
                         RequestNotFoundError)
             ELSE IF Pick(rows).receiverId # receiverId
                  THEN Return(p, "rejectFollowRequest", receiverId, Ghost, requestId,
                              UnauthorizedError)
                  ELSE IF Pick(rows).status # "PENDING"
                       THEN Return(p, "rejectFollowRequest", receiverId, Ghost, requestId,
                                   NotPendingError)
                       ELSE Await(p, "rejectFollowRequest_update", receiverId, Ghost,
                                  requestId)
    /\ UNCHANGED db

\* Variant of rejectFollowRequest_update: the row is deleted, as cancel does.
rejectFollowRequest_updateDeletes(p) ==
    /\ At(p, "rejectFollowRequest_update")
    /\ IF FindRequestById(proc[p].id) = {}
       THEN /\ Return(p, "rejectFollowRequest", proc[p].u, Ghost, proc[p].id, RecordNotFound)
            /\ UNCHANGED followRequests
       ELSE /\ followRequests' = {r \in followRequests : r.id # proc[p].id}
            /\ Return(p, "rejectFollowRequest", proc[p].u, Ghost, proc[p].id, "true")
    /\ UNCHANGED <<users, follows, pins, nextFollowId, nextRequestId, nextPinId, likes>>

\* followRequest.update({ id: requestId }, { status: "REJECTED" }).
rejectFollowRequest_update(p) ==
    /\ At(p, "rejectFollowRequest_update")
    /\ IF FindRequestById(proc[p].id) = {}
       THEN /\ Return(p, "rejectFollowRequest", proc[p].u, Ghost, proc[p].id, RecordNotFound)
            /\ UNCHANGED followRequests
       ELSE /\ followRequests' = SetStatus(proc[p].id, "REJECTED")
            /\ Return(p, "rejectFollowRequest", proc[p].u, Ghost, proc[p].id, "true")
    /\ UNCHANGED <<users, follows, pins, nextFollowId, nextRequestId, nextPinId, likes>>

\* ---------------------------------------------------------------------------
\* PinService.createPin / PinService.getPinById
\* ---------------------------------------------------------------------------

\* Pin ids a caller may name: every id that can exist.
PinIds == 1..MaxPinId

\* Who may ask for a pin: request.user.id, or undefined when there is no token.
Viewers == Registered \cup {Anonymous}

\* pin.create({ authorId, lat, lng, isPublic, ... }) for the authenticated
\* author; the pin is placed on the equator at longitude lng (degrees).
CreatePinAt(p, lng) ==
    /\ Ready(p)
    /\ nextPinId <= MaxPinId
    /\ \E authorId \in Registered, isPublic \in BOOLEAN :
          /\ pins' = pins \cup {[id |-> nextPinId, authorId |-> authorId,
                                 isPublic |-> isPublic, lat |-> 0, lng |-> lng]}
          /\ Return(p, "createPin", authorId, Ghost, nextPinId, "pin")
    /\ nextPinId' = nextPinId + 1
    /\ UNCHANGED <<users, follows, followRequests, nextFollowId, nextRequestId, likes>>

\* createPin called with the coordinates (0, 0).
createPin(p) == CreatePinAt(p, 0)

\* createPin called with the coordinates (0, 1), one degree to the east.
createPin_east(p) == CreatePinAt(p, 1)

\* Variant of NeedsFollow: pins of a private author gated as well.
NeedsFollowGatedByAuthorPrivacy(pin, userId) ==
    (~pin.isPublic \/ users[pin.authorId].isPrivate) /\ userId # pin.authorId

\* if (!pin.isPublic && userId !== pin.authorId): the pin is withheld unless a
\* follow edge is found.
NeedsFollow(pin, userId) == ~pin.isPublic /\ userId # pin.authorId

\* pin = pin.findUnique({ id }); null when missing; then the access check.
getPinById_findPin(p) ==
    /\ Ready(p)
    /\ \E pinId \in PinIds, userId \in Viewers :
          LET rows == {x \in pins : x.id = pinId}
          IN IF rows = {}
             THEN Return(p, "getPinById", userId, Ghost, pinId, "null")
             ELSE IF NeedsFollow(Pick(rows), userId)
                  THEN IF userId # Anonymous
                       THEN Await(p, "getPinById_findFollow", userId,
                                  Pick(rows).authorId, pinId)
                       ELSE Return(p, "getPinById", userId, Ghost, pinId, "null")
                  ELSE Return(p, "getPinById", userId, Ghost, pinId, "pin")
    /\ UNCHANGED db

\* Variant of getPinById_findFollow: a request row of the pair opens the pin too.
getPinById_findFollowOrRequest(p) ==
    /\ At(p, "getPinById_findFollow")
    /\ Return(p, "getPinById", proc[p].u, Ghost, proc[p].id,
              IF FindFollow(proc[p].u, proc[p].v) = {}
                 /\ FindRequest(proc[p].u, proc[p].v) = {}
              THEN "null" ELSE "pin")
    /\ UNCHANGED db

\* isFollowing = follow.findUnique({ followerId: userId, followingId: pin.authorId }).
getPinById_findFollow(p) ==
    /\ At(p, "getPinById_findFollow")
    /\ Return(p, "getPinById", proc[p].u, Ghost, proc[p].id,
              IF FindFollow(proc[p].u, proc[p].v) = {} THEN "null" ELSE "pin")
    /\ UNCHANGED db

\* ---------------------------------------------------------------------------
\* PinService.getPins(params)
\* ---------------------------------------------------------------------------

\* A parameter the caller left out.
Undefined == "undefined"

\* limit = 50 when the caller names none.
DefaultLimit == 50

\* authorId of a call: a registered user, or left out.
AuthorParams == Registered \cup {Undefined}

\* isPublic of a call: a boolean (written as the query string has it) or left out.
IsPublicParams == {"true", "false", Undefined}

\* limit and offset of a call: the defaults, or the second page of one.
PageParams == {[limit |-> DefaultLimit, offset |-> 0], [limit |-> 1, offset |-> 1]}

\* R = 6371: radius of the Earth in kilometers.
EarthRadiusKm == 6371

\* lat, lng and radius of a call, given being "all three are supplied"; a
\* call that leaves one out is not filtered by distance.
NoGeo == [given |-> FALSE, lat |-> 0, lng |-> 0, radius |-> 0]

\* Calls with coordinates: around (0, 0) or (0, 1), within 50 km or 150 km.
GeoParams == {[given |-> TRUE, lat |-> 0, lng |-> lng, radius |-> radius] :
                 lng \in {0, 1}, radius \in {50, 150}}

\* calculateDistance for two points of the equator (lat1 = lat2 = 0), where
\* the haversine formula comes to R * |deg2rad(lon2 - lon1)|; in whole
\* kilometers, with Math.PI taken as 3.1416.
calculateDistance(lat1, lon1, lat2, lon2) ==
    LET dLon == IF lon2 >= lon1 THEN lon2 - lon1 ELSE lon1 - lon2
    IN (EarthRadiusKm * dLon * 31416) \div 1800000

\* where: authorId when given, isPublic when given (isPublic !== undefined).
PinsWhere(authorId, isPublic) ==
    {pin \in pins : /\ authorId # Undefined => pin.authorId = authorId
                    /\ isPublic # Undefined => pin.isPublic = (isPublic = "true")}

\* orderBy createdAt desc: the ids of rows, newest (highest id) first.
NewestFirst(rows) ==
    LET ids == {pin.id : pin \in rows}
    IN CHOOSE s \in [1..Cardinality(ids) -> ids] :
          \A i \in 1..Cardinality(ids), j \in 1..Cardinality(ids) : i < j => s[i] > s[j]

\* findMany({ where, orderBy, take: limit, skip: offset }).
FindManyPins(rows, limit, offset) ==
    LET s == NewestFirst(rows)
        n == Len(s)
        first == IF offset + 1 <= n THEN offset + 1 ELSE n + 1
        last == IF offset + limit <= n THEN offset + limit ELSE n
    IN SubSeq(s, first, last)

\* pins.filter(pin => calculateDistance(lat, lng, pin.lat, pin.lng) <= radius)
\* when lat, lng and radius are supplied; pins itself otherwise.
FilterByDistance(page, geo) ==
    LET Near(id) ==
            \A pin \in pins :
                pin.id = id
                => calculateDistance(geo.lat, geo.lng, pin.lat, pin.lng) <= geo.radius
    IN IF geo.given THEN SelectSeq(page, Near) ELSE page

\* Variant of FetchPins: the distance filter is part of the query, applied
\* before the page is cut.
FetchPinsNearFirst(rows, limit, offset, geo) ==
    FindManyPins({pin \in rows :
                     geo.given
                     => calculateDistance(geo.lat, geo.lng, pin.lat, pin.lng)
                           <= geo.radius},
                 limit, offset)

\* The page fetched from the store, then filtered in memory.
FetchPins(rows, limit, offset, geo) ==
    FilterByDistance(FindManyPins(rows, limit, offset), geo)

\* The handler awaits its next round trip, keeping the parameters of the call.
AwaitPins(p, pc, page) ==
    /\ proc' = [proc EXCEPT ![p] = [proc[p] EXCEPT !.pc = pc, !.pins = page]]
    /\ UNCHANGED reply

\* return { pins, total }.
ReturnPins(p, params, page, total) ==
    /\ proc' = [proc EXCEPT ![p] = Idle]
    /\ reply' = [op |-> "getPins", u |-> params.u, v |-> params.v, id |-> 0,
                 res |-> "page", isPublic |-> params.isPublic,
                 limit |-> params.limit, offset |-> params.offset,
                 geo |-> params.geo, pins |-> page, total |-> total]

\* The call arrives.  When an authorId other than the caller is named:
\* author = user.findUnique({ id: authorId }); a private author leads to the
\* follow lookup, or at once to the empty answer for a caller without identity.
GetPinsArrives(p, geo) ==
    /\ Ready(p)
    /\ \E requestingUserId \in Viewers, authorId \in AuthorParams,
          isPublic \in IsPublicParams, page \in PageParams :
          LET params == [pc |-> "getPins_findMany", u |-> requestingUserId,
                         v |-> authorId, id |-> 0, isPublic |-> isPublic,
                         limit |-> page.limit, offset |-> page.offset,
                         geo |-> geo, pins |-> <<>>]
          IN IF /\ authorId # Undefined
                /\ requestingUserId # authorId
                /\ authorId \in DOMAIN users
                /\ users[authorId].isPrivate
             THEN IF requestingUserId # Anonymous
                  THEN /\ proc' = [proc EXCEPT ![p] =
                                      [params EXCEPT !.pc = "getPins_findFollow"]]
                       /\ UNCHANGED reply
                  ELSE ReturnPins(p, params, <<>>, 0)
             ELSE /\ proc' = [proc EXCEPT ![p] = params]
                  /\ UNCHANGED reply
    /\ UNCHANGED db

\* getPins called without lat, lng and radius.
getPins_findAuthor(p) == GetPinsArrives(p, NoGeo)

\* getPins called with lat, lng and radius.
getPins_findAuthorNear(p) == \E geo \in GeoParams : GetPinsArrives(p, geo)

\* Variant of getPins_findFollow: the follow lookup gates nothing.
getPins_findFollowIgnored(p) ==
    /\ At(p, "getPins_findFollow")
    /\ AwaitPins(p, "getPins_findMany", <<>>)
    /\ UNCHANGED db

\* isFollowing = follow.findUnique({ followerId: requestingUserId, followingId:
\* authorId }); if (!isFollowing) return { pins: [], total: 0 }.
getPins_findFollow(p) ==
    /\ At(p, "getPins_findFollow")
    /\ IF FindFollow(proc[p].u, proc[p].v) = {}
       THEN ReturnPins(p, proc[p], <<>>, 0)
       ELSE AwaitPins(p, "getPins_findMany", <<>>)
    /\ UNCHANGED db

\* pins = pin.findMany({ where, orderBy: { createdAt: "desc" }, take, skip }),
\* then filteredPins, computed before the handler awaits the count.
getPins_findMany(p) ==
    /\ At(p, "getPins_findMany")
    /\ AwaitPins(p, "getPins_count",
                 FetchPins(PinsWhere(proc[p].v, proc[p].isPublic),
                           proc[p].limit, proc[p].offset, proc[p].geo))
    /\ UNCHANGED db

\* total = pin.count({ where }); return { pins, total }.
getPins_count(p) ==
    /\ At(p, "getPins_count")
    /\ ReturnPins(p, proc[p], proc[p].pins,
                  Cardinality(PinsWhere(proc[p].v, proc[p].isPublic)))
    /\ UNCHANGED db

\* ---------------------------------------------------------------------------
\* FollowService.isFollowing / FollowService.getFollowRequestStatus
\* ---------------------------------------------------------------------------

\* !!follow.findUnique({ followerId_followingId }).
isFollowing(followerId, followingId) == FindFollow(followerId, followingId) # {}

\* request?.status || null.
getFollowRequestStatus(senderId, receiverId) ==
    IF FindRequest(senderId, receiverId) = {}
    THEN "null"
    ELSE Pick(FindRequest(senderId, receiverId)).status

\* Variant of getFollowCounts: the requests a user has received and not yet
\* answered are counted among the followers.
getFollowCountsWithPending(userId) ==
    [followersCount |->
        Cardinality({f \in follows : f.followingId = userId})
        + Cardinality({r \in followRequests :
                          r.receiverId = userId /\ r.status = "PENDING"}),
     followingCount |-> Cardinality({f \in follows : f.followerId = userId})]

\* follow.count({ followingId: userId }) and follow.count({ followerId: userId }).
getFollowCounts(userId) ==
    [followersCount |-> Cardinality({f \in follows : f.followingId = userId}),
     followingCount |-> Cardinality({f \in follows : f.followerId = userId})]

\* ---------------------------------------------------------------------------
\* UserController: the reply of the call that has returned
\* ---------------------------------------------------------------------------

\* The HTTP status the controller method of op sends for the outcome res (0 for
\* the pin service, which no controller of this repository calls).
HttpStatus(op, res) ==
    CASE op = "followUser" ->
            IF res \in {"follow", "request"} THEN 201
            ELSE IF res \in {AlreadyFollowingError, RequestAlreadyPendingError,
                             SelfFollowError} THEN 400
            ELSE IF res = TargetNotFoundError THEN 404
            ELSE 500
      [] op = "unfollowUser" ->
            IF res = "true" THEN 200 ELSE IF res = NotFollowingError THEN 400 ELSE 500
      [] op = "removeFollower" ->
            IF res = "true" THEN 200 ELSE IF res = NotAFollowerError THEN 400 ELSE 500
      [] op = "cancelFollowRequest" ->
            IF res = "true" THEN 200
            ELSE IF res \in {RequestNotFoundError, CancelNotPendingError} THEN 400
            ELSE 500
      [] op \in {"acceptFollowRequest", "rejectFollowRequest"} ->
            IF res \in {"follow", "true"} THEN 200
            ELSE IF res \in {RequestNotFoundError, NotPendingError} THEN 400
            ELSE IF res = UnauthorizedError THEN 403
            ELSE 500
      [] OTHER -> 0

\* reply.status(...).send(...): the response leaves and the request is over.
reply_send ==
    /\ reply # NoReply
    /\ reply' = NoReply
    /\ UNCHANGED <<db, proc>>

\* ---------------------------------------------------------------------------
\* PinService.likePin / PinService.unlikePin
\* ---------------------------------------------------------------------------

\* What likePin and unlikePin return besides the like itself.
NullResult == "null"
TrueResult == "true"
FalseResult == "false"

\* A row of likes; its id is a fresh uuid that no code reads.
NewLike(pinId, userId) == [pinId |-> pinId, userId |-> userId]

\* How many rows of likes have this pair.
CountLikes(pinId, userId) == CopiesIn(NewLike(pinId, userId), likes)

\* Variant of LikeInsert: likes without the index likes_pin_id_user_id_key.
LikeInsertNoUnique(pinId, userId) ==
    IF (\A pin \in pins : pin.id # pinId) \/ userId \notin DOMAIN users
    THEN ForeignKeyViolation
    ELSE "ok"

\* What the store answers to an insert into likes: the unique index on
\* (pin_id, user_id), then the foreign keys to pins and users.
LikeInsert(pinId, userId) ==
    IF CountLikes(pinId, userId) > 0 THEN UniqueViolation
    ELSE IF (\A pin \in pins : pin.id # pinId) \/ userId \notin DOMAIN users
         THEN ForeignKeyViolation
         ELSE "ok"

\* like.create({ pinId, userId }): the like, null when the store answers P2002,
\* any other fault rethrown.
likePin(p) ==
    /\ Ready(p)
    /\ \E pinId \in PinIds, userId \in UserIds :
          LET err == LikeInsert(pinId, userId)
          IN IF err = "ok"
             THEN /\ likes' = likes (+) SetToBag({NewLike(pinId, userId)})
                  /\ Return(p, "likePin", userId, Ghost, pinId, "like")
             ELSE /\ Return(p, "likePin", userId, Ghost, pinId,
                            IF err = UniqueViolation THEN NullResult ELSE err)
                  /\ UNCHANGED likes
    /\ UNCHANGED <<users, follows, followRequests, pins, nextFollowId, nextRequestId,
                   nextPinId>>

\* like.delete({ pinId_userId }): true, or false when the store throws, which
\* it does when no row has this pair.
unlikePin(p) ==
    /\ Ready(p)
    /\ \E pinId \in PinIds, userId \in UserIds :
          IF CountLikes(pinId, userId) = 0
          THEN /\ Return(p, "unlikePin", userId, Ghost, pinId, FalseResult)
               /\ UNCHANGED likes
          ELSE /\ likes' = [l \in DOMAIN likes \ {NewLike(pinId, userId)} |-> likes[l]]
               /\ Return(p, "unlikePin", userId, Ghost, pinId, TrueResult)
    /\ UNCHANGED <<users, follows, followRequests, pins, nextFollowId, nextRequestId,
                   nextPinId>>

\* ---------------------------------------------------------------------------
\* PinService.updatePin / PinService.deletePin
\* ---------------------------------------------------------------------------

\* pin.findUnique({ id: pinId }) as a set of rows.
FindPin(pinId) == {pin \in pins : pin.id = pinId}

\* Variant of OwnsPin: a follower of the author passes as well.
OwnsPinOrFollows(pinId, userId) ==
    \E pin \in FindPin(pinId) :
        pin.authorId = userId \/ FindFollow(userId, pin.authorId) # {}

\* The negation of the guard !pin || pin.authorId !== userId.
OwnsPin(pinId, userId) == \E pin \in FindPin(pinId) : pin.authorId = userId

\* The isPublic key of the data of an update: a value, or left out.
IsPublicData == {"true", "false", Undefined}

\* updatePin arrives: pin = pin.findUnique(...) and the ownership guard.
updatePin_find(p) ==
    /\ Ready(p)
    /\ \E pinId \in PinIds, userId \in Registered, isPublic \in IsPublicData :
          IF OwnsPin(pinId, userId)
          THEN Await(p, "updatePin_update", userId, isPublic, pinId)
          ELSE Return(p, "updatePin", userId, isPublic, pinId, NullResult)
    /\ UNCHANGED db

\* pin.update({ where: { id: pinId }, data }): the keys data has are written.
updatePin_update(p) ==
    /\ At(p, "updatePin_update")
    /\ IF FindPin(proc[p].id) = {}
       THEN /\ Return(p, "updatePin", proc[p].u, proc[p].v, proc[p].id, RecordNotFound)
            /\ UNCHANGED pins
       ELSE /\ pins' = {IF pin.id = proc[p].id /\ proc[p].v # Undefined
                        THEN [pin EXCEPT !.isPublic = (proc[p].v = "true")]
                        ELSE pin : pin \in pins}
            /\ Return(p, "updatePin", proc[p].u, proc[p].v, proc[p].id, "pin")
    /\ UNCHANGED <<users, follows, followRequests, likes, nextFollowId, nextRequestId,
                   nextPinId>>

\* deletePin arrives: pin = pin.findUnique(...) and the ownership guard.
deletePin_find(p) ==
    /\ Ready(p)
    /\ \E pinId \in PinIds, userId \in Registered :
          IF OwnsPin(pinId, userId)
          THEN Await(p, "deletePin_delete", userId, Ghost, pinId)
          ELSE Return(p, "deletePin", userId, Ghost, pinId, FalseResult)
    /\ UNCHANGED db

\* pin.delete({ where: { id: pinId } }); the likes of the pin go with it
\* (ON DELETE CASCADE).
deletePin_delete(p) ==
    /\ At(p, "deletePin_delete")
    /\ IF FindPin(proc[p].id) = {}
       THEN /\ Return(p, "deletePin", proc[p].u, Ghost, proc[p].id, RecordNotFound)
            /\ UNCHANGED <<pins, likes>>
       ELSE /\ pins' = pins \ FindPin(proc[p].id)
            /\ likes' = [l \in {x \in DOMAIN likes : x.pinId # proc[p].id} |-> likes[l]]
            /\ Return(p, "deletePin", proc[p].u, Ghost, proc[p].id, TrueResult)
    /\ UNCHANGED <<users, follows, followRequests, nextFollowId, nextRequestId,
                   nextPinId>>

\* ---------------------------------------------------------------------------
\* UserService.createUser / UserService.updateProfile
\* ---------------------------------------------------------------------------

\* "is_private" BOOLEAN NOT NULL DEFAULT true.
IsPrivateDefault == TRUE

\* user.create({ email, username, fullName, password }): the row gets a fresh
\* id and the column defaults; the insert is refused when the email or the
\* username is that of an existing user.
createUser(p) ==
    /\ Ready(p)
    /\ \E id \in Registered \ DOMAIN users, taken \in BOOLEAN :
          IF taken /\ DOMAIN users # {}
          THEN /\ Return(p, "createUser", Ghost, Ghost, 0, UniqueViolation)
               /\ UNCHANGED users
          ELSE /\ users' = [u \in DOMAIN users \cup {id} |->
                               IF u = id
                               THEN [isPrivate |-> IsPrivateDefault, bio |-> Null]
                               ELSE users[u]]
               /\ Return(p, "createUser", id, Ghost, 0, "user")
    /\ UNCHANGED <<follows, followRequests, pins, nextFollowId, nextRequestId,
                   nextPinId, likes>>

\* What a caller may send as the body of a profile update: each key a value or
\* left out; isPrivate is no key the service knows, but a body may carry it.
ProfileInputs == [bio : {Undefined, "hello"}, isPrivate : {Undefined, "false"}]

\* Variant of ProfileData: the body is passed to the store as it came.
ProfileDataSpread(input) == input

\* The data object updateProfile builds: bio (and the other profile columns)
\* when supplied, no other key.
ProfileData(input) == [bio |-> input.bio, isPrivate |-> Undefined]

\* user.update({ where: { id: userId }, data }): the columns data names change.
updateProfile(p) ==
    /\ Ready(p)
    /\ \E userId \in UserIds, input \in ProfileInputs :
          LET data == ProfileData(input)
          IN IF userId \notin DOMAIN users
             THEN /\ Return(p, "updateProfile", userId, Ghost, 0, RecordNotFound)
                  /\ UNCHANGED users
             ELSE /\ users' =
                        [users EXCEPT ![userId] =
                            [isPrivate |-> IF data.isPrivate # Undefined
                                           THEN data.isPrivate = "true"
                                           ELSE users[userId].isPrivate,
                             bio |-> IF data.bio # Undefined
                                     THEN data.bio
                                     ELSE users[userId].bio]]
                  /\ Return(p, "updateProfile", userId, Ghost, 0, "user")
    /\ UNCHANGED <<follows, followRequests, pins, nextFollowId, nextRequestId,
                   nextPinId, likes>>

\* ---------------------------------------------------------------------------
\* Specifications
\* ---------------------------------------------------------------------------

FollowStep(p) ==
    \/ followUser_findFollow(p)
    \/ followUser_findUser(p)
    \/ followUser_findRequest(p)
    \/ followUser_updateRequest(p)
    \/ followUser_createRequest(p)
    \/ followUser_createFollow(p)
    \/ unfollowUser_find(p)
    \/ unfollowUser_delete(p)
    \/ removeFollower_find(p)
    \/ removeFollower_delete(p)
    \/ cancelFollowRequest_find(p)
    \/ cancelFollowRequest_delete(p)
    \/ acceptFollowRequest_find(p)
    \/ acceptFollowRequest_transaction(p)
    \/ rejectFollowRequest_find(p)
    \/ rejectFollowRequest_update(p)

\* Handlers of the follow subsystem, overlapping freely.
Next == reply_send \/ \E p \in Procs : FollowStep(p)

Spec == Init /\ [][Next]_vars

\* The same handlers called one after the other, never overlapping.
NextSeq == reply_send \/ \E p \in SeqProcs : FollowStep(p)

SpecSeq == Init /\ [][NextSeq]_vars

PinStep(p) ==
    \/ createPin(p)
    \/ getPinById_findPin(p)
    \/ getPinById_findFollow(p)

\* Pins created and read between sequential calls of the follow subsystem.
NextPin == reply_send \/ \E p \in SeqProcs : FollowStep(p) \/ PinStep(p)

SpecPin == Init /\ [][NextPin]_vars

GetPinsStep(p) ==
    \/ getPins_findAuthor(p)
    \/ getPins_findFollow(p)
    \/ getPins_findMany(p)
    \/ getPins_count(p)

\* The calls by which an edge comes, is refused, and goes: follow, accept,
\* reject, unfollow.
EdgeStep(p) ==
    \/ followUser_findFollow(p)
    \/ followUser_findUser(p)
    \/ followUser_findRequest(p)
    \/ followUser_updateRequest(p)
    \/ followUser_createRequest(p)
    \/ followUser_createFollow(p)
    \/ acceptFollowRequest_find(p)
    \/ acceptFollowRequest_transaction(p)
    \/ rejectFollowRequest_find(p)
    \/ rejectFollowRequest_update(p)
    \/ unfollowUser_find(p)
    \/ unfollowUser_delete(p)

\* Pins created and listed between sequential calls that make and remove edges.
NextGetPins ==
    reply_send \/ \E p \in SeqProcs : EdgeStep(p) \/ createPin(p) \/ GetPinsStep(p)

SpecGetPins == Init /\ [][NextGetPins]_vars

\* Pins created at two places and listed with and without coordinates.
NextNear ==
    \/ reply_send
    \/ \E p \in SeqProcs :
          \/ createPin(p)
          \/ createPin_east(p)
          \/ getPins_findAuthorNear(p)
          \/ GetPinsStep(p)

SpecNear == Init /\ [][NextNear]_vars

\* Users whose rows were put into the table by hand with is_private false;
\* every other user signs up through createUser.
Seeded == {"u1"}

\* A store holding the seeded users and nothing else.
InitSeeded ==
    /\ users = [u \in Seeded |-> [isPrivate |-> FALSE, bio |-> Null]]
    /\ follows = {}
    /\ followRequests = {}
    /\ pins = {}
    /\ likes = EmptyBag
    /\ nextFollowId = 1
    /\ nextRequestId = 1
    /\ nextPinId = 1
    /\ proc = [p \in Procs |-> Idle]
    /\ reply = NoReply

\* Users signing up, editing their profiles, following one another and posting
\* pins, one call after the other.
NextSignup ==
    \/ reply_send
    \/ \E p \in SeqProcs :
          \/ createUser(p)
          \/ updateProfile(p)
          \/ FollowStep(p)
          \/ createPin(p)

SpecSignup == InitSeeded /\ [][NextSignup]_vars

\* Pins being posted, liked and unliked by calls that overlap.
NextLikes ==
    \/ reply_send
    \/ \E p \in Procs : createPin(p) \/ likePin(p) \/ unlikePin(p)

SpecLikes == Init /\ [][NextLikes]_vars

PinEditStep(p) ==
    \/ updatePin_find(p)
    \/ updatePin_update(p)
    \/ deletePin_find(p)
    \/ deletePin_delete(p)

\* A store in which u1 may already follow u2: by a direct follow when u2 is
\* public, by an accepted request when u2 is private.
InitFollowed ==
    /\ users \in [Registered -> [isPrivate : BOOLEAN, bio : {Null}]]
    /\ follows \in {{}, {[id |-> 1, followerId |-> "u1", followingId |-> "u2"]}}
    /\ followRequests =
          IF follows # {} /\ users["u2"].isPrivate
          THEN {[id |-> 1, senderId |-> "u1", receiverId |-> "u2",
                 status |-> "ACCEPTED", updated |-> TRUE]}
          ELSE {}
    /\ pins = {}
    /\ likes = EmptyBag
    /\ nextFollowId = 1 + Cardinality(follows)
    /\ nextRequestId = 1 + Cardinality(followRequests)
    /\ nextPinId = 1
    /\ proc = [p \in Procs |-> Idle]
    /\ reply = NoReply

\* Pins being posted by one client at a time, and edited and deleted by calls
\* that overlap.
NextPinEdit ==
    \/ reply_send
    \/ \E p \in SeqProcs : createPin(p)
    \/ \E p \in Procs : PinEditStep(p)

SpecPinEdit == InitFollowed /\ [][NextPinEdit]_vars

\* ---------------------------------------------------------------------------
\* Properties
\* ---------------------------------------------------------------------------

\* The step just taken is the return of a call of op.
Returns(op) == reply = NoReply /\ reply'.op = op

\* The rows of a table as it is after the step.
FollowsAfter(followerId, followingId) ==
    {f \in follows' : f.followerId = followerId /\ f.followingId = followingId}

RequestsAfter(senderId, receiverId) ==
    {r \in followRequests' : r.senderId = senderId /\ r.receiverId = receiverId}

\* C1: the transaction step of acceptFollowRequest either returns the follow,
\* and then the edge sender->receiver exists and the request is ACCEPTED in the
\* very state the step produces (isFollowing is true, getFollowRequestStatus
\* is ACCEPTED), or it fails with a store fault, and then neither the follows
\* table nor the follow_requests table has changed.
C1_AcceptIsAtomic ==
    [][\A p \in Procs :
          (proc[p].pc = "acceptFollowRequest_transaction" /\ proc'[p].pc = "idle")
          => LET senderId == proc[p].v
                 receiverId == proc[p].u
                 requestId == proc[p].id
             IN \/ /\ reply'.res = "follow"
                   /\ FollowsAfter(senderId, receiverId) # {}
                   /\ RequestsAfter(senderId, receiverId) # {}
                   /\ \A r \in RequestsAfter(senderId, receiverId) :
                         r.id = requestId /\ r.status = "ACCEPTED"
                   /\ Cardinality(follows') = Cardinality(follows) + 1
                \/ /\ reply'.res \in StoreFaults
                   /\ follows' = follows
                   /\ followRequests' = followRequests]_vars

\* C1 witness: an accept has just returned its follow; the edge and the
\* ACCEPTED status are there together.
C1_Witness ==
    /\ reply.op = "acceptFollowRequest"
    /\ reply.res = "follow"
    /\ \E r \in followRequests :
          /\ r.id = reply.id
          /\ r.status = "ACCEPTED"
          /\ isFollowing(r.senderId, r.receiverId)

\* C2: in sequential use, followUser(a, b) with a and b registered, a # b, b
\* public and no edge a->b returns type "follow", and afterwards there is
\* exactly one follows row a->b and no follow_requests row a->b.
C2_PublicFollowCreatesEdge ==
    [][(/\ Returns("followUser")
        /\ reply'.u \in Registered
        /\ reply'.v \in Registered
        /\ reply'.u # reply'.v
        /\ ~users[reply'.v].isPrivate
        /\ ~isFollowing(reply'.u, reply'.v))
       => /\ reply'.res = "follow"
          /\ Cardinality(FollowsAfter(reply'.u, reply'.v)) = 1
          /\ RequestsAfter(reply'.u, reply'.v) = {}]_vars

\* C2 witness: a follow of a public user has just returned "follow".
C2_Witness ==
    /\ reply.op = "followUser"
    /\ reply.res = "follow"
    /\ ~users[reply.v].isPrivate
    /\ Cardinality(FindFollow(reply.u, reply.v)) = 1
    /\ FindRequest(reply.u, reply.v) = {}

\* C3: in sequential use, followUser(a, b) with a and b registered, a # b, b
\* private and no edge a->b returns type "request", and afterwards there is
\* exactly one follow_requests row a->b, it is PENDING, and there is no edge
\* a->b, whatever row the pair had before.  A prior PENDING row is left out
\* here: there the call is refused with "Follow request already pending" and
\* the row stays as it is.
C3_PrivateFollowCreatesRequest ==
    [][(/\ Returns("followUser")
        /\ reply'.u \in Registered
        /\ reply'.v \in Registered
        /\ reply'.u # reply'.v
        /\ users[reply'.v].isPrivate
        /\ ~isFollowing(reply'.u, reply'.v)
        /\ getFollowRequestStatus(reply'.u, reply'.v) # "PENDING")
       => /\ reply'.res = "request"
          /\ Cardinality(RequestsAfter(reply'.u, reply'.v)) = 1
          /\ \A r \in RequestsAfter(reply'.u, reply'.v) : r.status = "PENDING"
          /\ FollowsAfter(reply'.u, reply'.v) = {}]_vars

\* C3 witness: a follow of a private user has just returned "request" and the
\* pair has its one PENDING row and no edge.
C3_Witness ==
    /\ reply.op = "followUser"
    /\ reply.res = "request"
    /\ users[reply.v].isPrivate
    /\ Cardinality(FindRequest(reply.u, reply.v)) = 1
    /\ getFollowRequestStatus(reply.u, reply.v) = "PENDING"
    /\ ~isFollowing(reply.u, reply.v)

\* C4: a followUser of a registered follower that got as far as follow.create
\* toward a public target either creates the edge or fails with "Already
\* following this user" (HTTP 400), never with a store fault (HTTP 500).
C4_RaceLoserIsAlreadyFollowing ==
    [][\A p \in Procs :
          (/\ proc[p].pc = "followUser_createFollow"
           /\ proc'[p].pc = "idle"
           /\ proc[p].u \in Registered)
          => /\ reply'.res \in {"follow", AlreadyFollowingError}
             /\ HttpStatus("followUser", reply'.res) \in {201, 400}]_vars

\* C4 witness: the race has happened; the loser's follow.create has just been
\* refused by the unique index while the winner's edge is there.
C4_Witness ==
    /\ reply.op = "followUser"
    /\ reply.res = UniqueViolation
    /\ ~users[reply.v].isPrivate
    /\ Cardinality(FindFollow(reply.u, reply.v)) = 1

\* C5: in sequential use, getPinById(pinId, viewer) returns the pin exactly
\* when the pin exists and it is public, or the viewer is its author, or the
\* viewer follows its author; otherwise null.  The author's isPrivate is not
\* part of the condition, and an anonymous viewer gets exactly the public pins.
C5_GetPinByIdVisibility ==
    [][Returns("getPinById")
       => LET rows == {x \in pins : x.id = reply'.id}
              viewer == reply'.u
          IN /\ reply'.res \in {"pin", "null"}
             /\ reply'.res = "pin"
                <=> /\ rows # {}
                    /\ \A pin \in rows :
                          \/ pin.isPublic
                          \/ viewer = pin.authorId
                          \/ isFollowing(viewer, pin.authorId)
             /\ viewer = Anonymous
                => (reply'.res = "pin" <=> (rows # {} /\ \A pin \in rows : pin.isPublic))]_vars

\* C5 witness: a non-public pin has just been returned to a viewer who is not
\* its author (so through the follow edge).
C5_Witness ==
    /\ reply.op = "getPinById"
    /\ reply.res = "pin"
    /\ \E pin \in pins :
          /\ pin.id = reply.id
          /\ ~pin.isPublic
          /\ pin.authorId # reply.u
          /\ isFollowing(reply.u, pin.authorId)

\* C6: in every reachable state there is at most one follow_requests row for
\* each ordered (sender, receiver) pair.
C6_OneRequestPerPair ==
    \A senderId \in UserIds, receiverId \in UserIds :
        Cardinality(FindRequest(senderId, receiverId)) <= 1

\* C6 witness: a second insert for a pair has just been refused by the unique
\* index of follow_requests; the pair keeps its one row.
C6_Witness ==
    /\ reply.op = "followUser"
    /\ reply.res = UniqueViolation
    /\ users[reply.v].isPrivate
    /\ Cardinality(FindRequest(reply.u, reply.v)) = 1

\* C7: in every reachable state there is at most one follows row for each
\* ordered (follower, following) pair, and no follows row has followerId equal
\* to followingId, whichever handler inserted the row.
C7_OneEdgePerPairNoSelfLoop ==
    /\ \A followerId \in UserIds, followingId \in UserIds :
          Cardinality(FindFollow(followerId, followingId)) <= 1
    /\ \A f \in follows : f.followerId # f.followingId

\* C7 witness: an acceptFollowRequest has just had its follow.create refused by
\* the unique index of follows, the edge being there already.
C7_Witness ==
    /\ reply.op = "acceptFollowRequest"
    /\ reply.res = UniqueViolation
    /\ follows # {}

\* C8: a step that brings an edge a->b into existence is either the
\* follow.create of followUser(a, b) with b public, or the transaction of
\* acceptFollowRequest called by b on a request row sent by a to b.
C8_EdgeOnlyByFollowOrAccept ==
    [][\A a \in UserIds, b \in UserIds :
          (~isFollowing(a, b) /\ FollowsAfter(a, b) # {})
          => \E p \in Procs :
                /\ proc'[p].pc = "idle"
                /\ proc[p].u # proc[p].v
                /\ \/ /\ proc[p].pc = "followUser_createFollow"
                      /\ proc[p].u = a
                      /\ proc[p].v = b
                      /\ ~users[b].isPrivate
                   \/ /\ proc[p].pc = "acceptFollowRequest_transaction"
                      /\ proc[p].u = b
                      /\ proc[p].v = a
                      /\ \E r \in followRequests :
                            r.id = proc[p].id /\ r.senderId = a /\ r.receiverId = b]_vars

\* C8 witness: an edge toward a private user exists, the accept that made it
\* having just returned.
C8_Witness ==
    /\ reply.op = "acceptFollowRequest"
    /\ reply.res = "follow"
    /\ users[reply.u].isPrivate
    /\ \E f \in follows : f.followingId = reply.u

\* C9: in sequential use, followUser(a, b) with b private and a REJECTED row
\* a->b returns type "request", sets that very row (same id) to PENDING and
\* inserts no row: the pair still has exactly one row.
C9_RejectedRowIsResurrected ==
    [][(/\ Returns("followUser")
        /\ reply'.v \in Registered
        /\ users[reply'.v].isPrivate
        /\ getFollowRequestStatus(reply'.u, reply'.v) = "REJECTED")
       => LET old == Pick(FindRequest(reply'.u, reply'.v))
          IN /\ reply'.res = "request"
             /\ followRequests' =
                   (followRequests \ {old})
                   \cup {[old EXCEPT !.status = "PENDING", !.updated = TRUE]}
             /\ nextRequestId' = nextRequestId
             /\ Cardinality(RequestsAfter(reply'.u, reply'.v)) = 1]_vars

\* C9 witness: a followUser has just returned "request" and the PENDING row of
\* the pair is a row that was updated after its creation, that is, resurrected.
C9_Witness ==
    /\ reply.op = "followUser"
    /\ reply.res = "request"
    /\ \E r \in FindRequest(reply.u, reply.v) : r.status = "PENDING" /\ r.updated

\* C10: in sequential use every ordered pair is in one of five states: no
\* row and no edge; a PENDING row and no edge; an ACCEPTED row and an edge; a
\* REJECTED row and no edge; an edge and no row.
C10_FivePairStates ==
    \A senderId \in UserIds, receiverId \in UserIds :
        LET status == getFollowRequestStatus(senderId, receiverId)
            edge == isFollowing(senderId, receiverId)
        IN \/ status = "null" /\ ~edge
           \/ status = "PENDING" /\ ~edge
           \/ status = "ACCEPTED" /\ edge
           \/ status = "REJECTED" /\ ~edge
           \/ status = "null" /\ edge

\* C10 witness: an unfollowUser has just deleted the edge of an accepted
\* request; the ACCEPTED row is still there.
C10_Witness ==
    /\ reply.op = "unfollowUser"
    /\ reply.res = "true"
    /\ getFollowRequestStatus(reply.u, reply.v) = "ACCEPTED"
    /\ ~isFollowing(reply.u, reply.v)

\* C11: in sequential use, a followUser toward a private user that has found
\* no edge and is past its lookup of the pair's request row never holds a row
\* whose status is ACCEPTED (the row it found is that of the state, no other
\* call having run in between).
C11_AcceptedBranchUnreached ==
    \A p \in Procs :
        proc[p].pc = "followUser_createRequest"
        => getFollowRequestStatus(proc[p].u, proc[p].v) # "ACCEPTED"

\* C11 witness: a followUser toward a private user is past both lookups, with
\* no edge and no row for the pair, about to create the request.
C11_Witness ==
    \E p \in Procs :
        /\ proc[p].pc = "followUser_createRequest"
        /\ users[proc[p].v].isPrivate
        /\ ~isFollowing(proc[p].u, proc[p].v)
        /\ getFollowRequestStatus(proc[p].u, proc[p].v) = "null"

\* What the guards of acceptFollowRequest and rejectFollowRequest throw for the
\* call (receiverId, requestId) in the present state; "pass" when none throws.
C12_Guards(receiverId, requestId) ==
    LET rows == FindRequestById(requestId)
    IN IF rows = {} THEN RequestNotFoundError
       ELSE IF \E r \in rows : r.receiverId # receiverId THEN UnauthorizedError
       ELSE IF \E r \in rows : r.status # "PENDING" THEN NotPendingError
       ELSE "pass"

\* C12: acceptFollowRequest and rejectFollowRequest apply the same guards in
\* the same order: "Follow request not found" when no row has the id, else
\* "Unauthorized" when the caller is not the row's receiver (whatever the
\* row's status), else "Request is not pending" when the status is not
\* PENDING; a call goes on to its write only when all three pass.  Hence a step
\* that turns a PENDING row into ACCEPTED or REJECTED is the write of a call
\* made by the row's receiver.  Holds with handlers overlapping.
C12_AcceptRejectGuards ==
    [][/\ \A op \in {"acceptFollowRequest", "rejectFollowRequest"} :
             (Returns(op) /\ proc' = proc)
             => /\ C12_Guards(reply'.u, reply'.id) # "pass"
                /\ reply'.res = C12_Guards(reply'.u, reply'.id)
       /\ \A p \in Procs :
             (/\ proc[p].pc = "idle"
              /\ proc'[p].pc \in {"acceptFollowRequest_transaction",
                                  "rejectFollowRequest_update"})
             => C12_Guards(proc'[p].u, proc'[p].id) = "pass"
       /\ \A r \in followRequests :
             (/\ r.status = "PENDING"
              /\ \E r2 \in followRequests' :
                    r2.id = r.id /\ r2.status \in {"ACCEPTED", "REJECTED"})
             => \E p \in Procs :
                   /\ proc[p].pc \in {"acceptFollowRequest_transaction",
                                      "rejectFollowRequest_update"}
                   /\ proc'[p].pc = "idle"
                   /\ proc[p].id = r.id
                   /\ proc[p].u = r.receiverId
                   /\ reply'.u = r.receiverId]_vars

\* C12 witness: the sender of a request that is no longer PENDING has just
\* tried to reject it and was refused as unauthorized, not as not-pending.
C12_Witness ==
    /\ reply.op = "rejectFollowRequest"
    /\ reply.res = UnauthorizedError
    /\ \E r \in FindRequestById(reply.id) :
          r.senderId = reply.u /\ r.status # "PENDING"

\* C13: in sequential use, rejectFollowRequest called by the receiver of a
\* PENDING row returns true and changes that row's status to REJECTED and
\* nothing else: the row stays, with its id, sender and receiver; no other row
\* changes; the follows table is as it was, so no edge is created.
C13_RejectKeepsRowNoEdge ==
    [][(/\ Returns("rejectFollowRequest")
        /\ \E r \in FindRequestById(reply'.id) :
              r.receiverId = reply'.u /\ r.status = "PENDING")
       => LET old == Pick(FindRequestById(reply'.id))
          IN /\ reply'.res = "true"
             /\ followRequests' =
                   (followRequests \ {old})
                   \cup {[old EXCEPT !.status = "REJECTED", !.updated = TRUE]}
             /\ follows' = follows
             /\ nextFollowId' = nextFollowId
             /\ nextRequestId' = nextRequestId]_vars

\* C13 witness: a reject has just returned true; its row is there, REJECTED,
\* received by the caller, and its sender does not follow the caller.
C13_Witness ==
    /\ reply.op = "rejectFollowRequest"
    /\ reply.res = "true"
    /\ \E r \in FindRequestById(reply.id) :
          /\ r.status = "REJECTED"
          /\ r.receiverId = reply.u
          /\ ~isFollowing(r.senderId, r.receiverId)

\* C14: in sequential use, cancelFollowRequest(sender, receiver) fails with
\* "Follow request not found" when the pair sender->receiver has no row, and
\* with "Can only cancel pending requests" when its row is ACCEPTED or
\* REJECTED, leaving every table as it was; otherwise the row is PENDING, the
\* call returns true and removes exactly that row, touching no edge.  A row
\* disappears only through a cancel whose caller is the row's sender.
C14_CancelOnlyPendingBySender ==
    [][/\ Returns("cancelFollowRequest")
          => LET rows == FindRequest(reply'.u, reply'.v)
             IN IF rows = {}
                THEN reply'.res = RequestNotFoundError /\ db' = db
                ELSE IF \E r \in rows : r.status # "PENDING"
                     THEN reply'.res = CancelNotPendingError /\ db' = db
                     ELSE /\ reply'.res = "true"
                          /\ followRequests' = followRequests \ rows
                          /\ follows' = follows
       /\ \A r \in followRequests :
             (\A r2 \in followRequests' : r2.id # r.id)
             => /\ Returns("cancelFollowRequest")
                /\ reply'.res = "true"
                /\ reply'.u = r.senderId
                /\ reply'.v = r.receiverId
                /\ r.status = "PENDING"]_vars

\* C14 witness: the sender has just cancelled; the pair has no row any more
\* although request ids have been handed out.
C14_Witness ==
    /\ reply.op = "cancelFollowRequest"
    /\ reply.res = "true"
    /\ FindRequest(reply.u, reply.v) = {}
    /\ nextRequestId > 1

\* C15: in sequential use, followUser(follower, target) checks in this order:
\* "You cannot follow yourself" when follower = target, also when that user is
\* not registered; then "Already following this user" when the edge exists;
\* then "User not found" when the target is not registered; then, the target
\* being private, "Follow request already pending" when the pair's row is
\* PENDING.  A call that fails in one of these four ways changes no table.
C15_FollowGuardOrder ==
    [][/\ Returns("followUser")
          => LET a == reply'.u
                 b == reply'.v
             IN /\ a = b => reply'.res = SelfFollowError
                /\ (a # b /\ isFollowing(a, b)) => reply'.res = AlreadyFollowingError
                /\ (a # b /\ ~isFollowing(a, b) /\ b \notin DOMAIN users)
                   => reply'.res = TargetNotFoundError
                /\ (/\ a # b
                    /\ ~isFollowing(a, b)
                    /\ b \in DOMAIN users
                    /\ users[b].isPrivate
                    /\ getFollowRequestStatus(a, b) = "PENDING")
                   => reply'.res = RequestAlreadyPendingError
                /\ reply'.res \in {SelfFollowError, AlreadyFollowingError,
                                   TargetNotFoundError, RequestAlreadyPendingError}
                   => db' = db
       /\ \A p \in Procs :
             /\ (proc[p].pc = "idle" /\ proc'[p].pc = "followUser_findUser")
                => (proc'[p].u # proc'[p].v /\ ~isFollowing(proc'[p].u, proc'[p].v))
             /\ (/\ proc[p].pc = "followUser_findUser"
                 /\ proc'[p].pc \in {"followUser_findRequest", "followUser_createFollow"})
                => proc[p].v \in DOMAIN users
             /\ (proc[p].pc = "followUser_findRequest" /\ proc'[p].pc # "idle")
                => getFollowRequestStatus(proc[p].u, proc[p].v) # "PENDING"]_vars

\* C15 witness: a user who is not registered has just tried to follow
\* themselves and was told so, not that the user is not found.
C15_Witness ==
    /\ reply.op = "followUser"
    /\ reply.u = Ghost
    /\ reply.v = Ghost
    /\ reply.res = SelfFollowError
    /\ followRequests # {}

\* C16: in sequential use, unfollowUser(a, b) and removeFollower(b, a) have
\* one and the same effect: when the edge a->b exists the call returns true
\* and deletes that edge and nothing else (not the edge b->a, no other edge,
\* no request row); when it does not, the call fails as not-following (HTTP
\* 400; "Not following this user" from unfollowUser, "User is not following
\* you" from removeFollower) and every table is as it was.
C16_UnfollowEqualsRemoveFollower ==
    [][\A op \in {"unfollowUser", "removeFollower"} :
          Returns(op)
          => LET a == IF op = "unfollowUser" THEN reply'.u ELSE reply'.v
                 b == IF op = "unfollowUser" THEN reply'.v ELSE reply'.u
             IN IF isFollowing(a, b)
                THEN /\ reply'.res = "true"
                     /\ follows' = follows \ FindFollow(a, b)
                     /\ followRequests' = followRequests
                ELSE /\ reply'.res = IF op = "unfollowUser"
                                     THEN NotFollowingError
                                     ELSE NotAFollowerError
                     /\ HttpStatus(op, reply'.res) = 400
                     /\ db' = db]_vars

\* C16 witness: removeFollower has just deleted the edge follower->user of two
\* users who followed each other; the edge user->follower is still there.
C16_Witness ==
    /\ reply.op = "removeFollower"
    /\ reply.res = "true"
    /\ ~isFollowing(reply.v, reply.u)
    /\ isFollowing(reply.u, reply.v)

\* C17: between sequential calls of the follow subsystem, getPinById(P, viewer)
\* for a pin P that is not public and a registered viewer who is not its
\* author returns the pin in every state in which the edge viewer->author
\* exists and null in every state in which it does not, whatever request row
\* the pair has: a PENDING or REJECTED row grants nothing, and after
\* unfollowUser or removeFollower has deleted the edge the answer is null again.
C17_PrivatePinFollowsEdge ==
    [][Returns("getPinById")
       => \A pin \in pins :
             (/\ pin.id = reply'.id
              /\ ~pin.isPublic
              /\ reply'.u \in Registered
              /\ reply'.u # pin.authorId)
             => /\ isFollowing(reply'.u, pin.authorId) => reply'.res = "pin"
                /\ ~isFollowing(reply'.u, pin.authorId) => reply'.res = "null"
                /\ getFollowRequestStatus(reply'.u, pin.authorId)
                      \in {"PENDING", "REJECTED"}
                   => reply'.res = "null"]_vars

\* C17 witness: a viewer whose request had been accepted and whose edge has
\* since been deleted has just been refused a non-public pin of the author.
C17_Witness ==
    /\ reply.op = "getPinById"
    /\ reply.res = "null"
    /\ \E pin \in pins :
          /\ pin.id = reply.id
          /\ ~pin.isPublic
          /\ pin.authorId # reply.u
          /\ reply.u \in Registered
          /\ getFollowRequestStatus(reply.u, pin.authorId) = "ACCEPTED"
          /\ ~isFollowing(reply.u, pin.authorId)

\* The ids a page holds.
C18_Ids(page) == {page[i] : i \in 1..Len(page)}

\* C18: between sequential calls, getPins naming as authorId a private user
\* answers a caller who is not that user and has no edge to them (a caller
\* without identity included) with no pins and total 0.  It answers the
\* author and every follower with the author's pins: total counts them all,
\* the page holds only them, and with the default limit and offset the page is
\* all of them; they are narrowed to isPublic = true or false only when the
\* call supplies isPublic, so that without it the non-public pins are there.
C18_GetPinsAuthorGate ==
    [][(/\ Returns("getPins")
        /\ reply'.v \in Registered
        /\ users[reply'.v].isPrivate)
       => LET viewer == reply'.u
              authorId == reply'.v
              wanted == {pin \in pins :
                            /\ pin.authorId = authorId
                            /\ \/ reply'.isPublic = Undefined
                               \/ pin.isPublic = (reply'.isPublic = "true")}
              ids == {pin.id : pin \in wanted}
          IN IF viewer # authorId /\ ~isFollowing(viewer, authorId)
             THEN reply'.pins = <<>> /\ reply'.total = 0
             ELSE /\ reply'.total = Cardinality(wanted)
                  /\ C18_Ids(reply'.pins) \subseteq ids
                  /\ (reply'.limit = DefaultLimit /\ reply'.offset = 0)
                     => C18_Ids(reply'.pins) = ids]_vars

\* C18 witness: a follower of a private author has just listed the author's
\* pins without supplying isPublic, and a non-public pin is among them.
C18_Witness ==
    /\ reply.op = "getPins"
    /\ reply.v \in Registered
    /\ users[reply.v].isPrivate
    /\ reply.u # reply.v
    /\ isFollowing(reply.u, reply.v)
    /\ reply.isPublic = Undefined
    /\ \E pin \in pins :
          /\ ~pin.isPublic
          /\ pin.authorId = reply.v
          /\ pin.id \in C18_Ids(reply.pins)

\* C19: in sequential use, getFollowCounts(u).followersCount is the number of
\* users who follow u and followingCount the number of users u follows, in
\* every state.  A followUser that returns the follow and an
\* acceptFollowRequest that returns it raise the followersCount of the target
\* (of the receiver) by exactly 1; a successful unfollowUser or removeFollower
\* lowers the followersCount of the followed user by exactly 1; a step that
\* changes no edge (a request created, rejected, cancelled, made PENDING
\* again) changes no count.
C19_FollowCounts ==
    [][/\ \A u \in UserIds :
             /\ getFollowCounts(u).followersCount
                   = Cardinality({a \in UserIds : isFollowing(a, u)})
             /\ getFollowCounts(u).followingCount
                   = Cardinality({b \in UserIds : isFollowing(u, b)})
             /\ follows' = follows => getFollowCounts(u)' = getFollowCounts(u)
       /\ \A a \in UserIds, b \in UserIds :
             LET before == getFollowCounts(b).followersCount
                 after == getFollowCounts(b)'.followersCount
             IN /\ (/\ Returns("followUser")
                    /\ reply'.res = "follow"
                    /\ reply'.v = b) => after = before + 1
                /\ (/\ Returns("acceptFollowRequest")
                    /\ reply'.res = "follow"
                    /\ reply'.u = b) => after = before + 1
                /\ (/\ Returns("unfollowUser")
                    /\ reply'.res = "true"
                    /\ reply'.v = b) => after = before - 1
                /\ (/\ Returns("removeFollower")
                    /\ reply'.res = "true"
                    /\ reply'.u = b) => after = before - 1
                /\ (/\ Returns("followUser")
                    /\ reply'.res = "request"
                    /\ reply'.v = b) => after = before
                /\ (/\ Returns("rejectFollowRequest")
                    /\ reply'.u = b) => after = before]_vars

\* C19 witness: an accept has just returned; its receiver counts one follower
\* and has, besides, a request from the other side that is not counted.
C19_Witness ==
    /\ reply.op = "acceptFollowRequest"
    /\ reply.res = "follow"
    /\ getFollowCounts(reply.u).followersCount = 1
    /\ getFollowCounts(reply.u).followingCount = 0
    /\ \E r \in followRequests : r.senderId = reply.u /\ r.status # "ACCEPTED"

\* C20: a follow_requests row that is ACCEPTED is still there and still
\* ACCEPTED after every step of every handler of the follow subsystem, the
\* handlers overlapping as the server lets them.
C20_AcceptedRowStays ==
    [][\A r \in followRequests :
          r.status = "ACCEPTED"
          => \E r2 \in followRequests' : r2.id = r.id /\ r2.status = "ACCEPTED"]_vars

\* C20 witness: a cancelFollowRequest has just deleted the row of a request
\* toward a private user that an overlapping accept had turned ACCEPTED: the
\* edge made by the accept is there, the row is gone.
C20_Witness ==
    /\ reply.op = "cancelFollowRequest"
    /\ reply.res = "true"
    /\ users[reply.v].isPrivate
    /\ isFollowing(reply.u, reply.v)
    /\ FindRequest(reply.u, reply.v) = {}

\* Whether the author gate of getPins turns the call (viewer, authorId) away.
C21_Gated(viewer, authorId) ==
    /\ authorId \in Registered
    /\ viewer # authorId
    /\ users[authorId].isPrivate
    /\ ~isFollowing(viewer, authorId)

C22_GetPinsNeverLeaks ==
    [][Returns("getPins")
       => \A i \in 1..Len(reply'.pins) :
             \A pin \in pins :
                pin.id = reply'.pins[i]
                => \/ pin.isPublic
                   \/ reply'.u = pin.authorId
                   \/ isFollowing(reply'.u, pin.authorId)]_vars

\* C22 witness: a caller without identity has just been handed a pin that is
\* not public.
C22_Witness ==
    /\ reply.op = "getPins"
    /\ reply.u = Anonymous
    /\ \E i \in 1..Len(reply.pins) :
          \E pin \in pins : pin.id = reply.pins[i] /\ ~pin.isPublic

\* C23: in sequential use, a can get to follow a private b again after an
\* accepted request whose edge unfollowUser or removeFollower has deleted: the
\* followUser(a, b) made in that state (no edge a->b, the pair's row ACCEPTED)
\* succeeds and returns type "request", the first call of the sequence that
\* is to lead back to the edge.
C23_CanRequestAgain ==
    [][(/\ Returns("followUser")
        /\ reply'.u \in Registered
        /\ reply'.v \in Registered
        /\ users[reply'.v].isPrivate
        /\ ~isFollowing(reply'.u, reply'.v)
        /\ getFollowRequestStatus(reply'.u, reply'.v) = "ACCEPTED")
       => /\ reply'.res = "request"
          /\ \E r \in RequestsAfter(reply'.u, reply'.v) : r.status = "PENDING"]_vars

\* The pair a->b has its row ACCEPTED and no edge.
C23_Stranded(a, b) ==
    ~isFollowing(a, b) /\ getFollowRequestStatus(a, b) = "ACCEPTED"

\* C23 witness: a's followUser toward private b has just been refused by the
\* unique index of follow_requests; the pair is left with its ACCEPTED row and
\* no edge, as it was.
C23_Witness ==
    /\ reply.op = "followUser"
    /\ reply.res = UniqueViolation
    /\ users[reply.v].isPrivate
    /\ C23_Stranded(reply.u, reply.v)

\* C24: with handlers overlapping, in every reachable state a pair that has
\* its edge a->b has no follow_requests row a->b that is PENDING or REJECTED.
C24_NoEdgeWithOpenOrRejectedRow ==
    \A a \in UserIds, b \in UserIds :
        isFollowing(a, b)
        => getFollowRequestStatus(a, b) \notin {"PENDING", "REJECTED"}

\* C24 witness: a rejectFollowRequest that overlapped an accept of the same
\* request has just returned true: the row is REJECTED and the edge is there.
C24_Witness ==
    /\ reply.op = "rejectFollowRequest"
    /\ reply.res = "true"
    /\ \E r \in FindRequestById(reply.id) :
          r.status = "REJECTED" /\ isFollowing(r.senderId, r.receiverId)

\* C25: with handlers overlapping, when the transaction of acceptFollowRequest
\* runs after the request row it read as PENDING has been deleted (by a
\* cancelFollowRequest), it fails as a whole: the call ends in a fault of the
\* store (record not found, unless the edge exists already and follow.create
\* is refused first) and neither table changes, so no edge is created.
\* Whenever the transaction does create the edge sender->receiver, the request
\* row is there, with the id the call named, and ACCEPTED in the same state.
C25_AcceptFailsWhenRowCancelled ==
    [][\A p \in Procs :
          (proc[p].pc = "acceptFollowRequest_transaction" /\ proc'[p].pc = "idle")
          => /\ FindRequestById(proc[p].id) = {}
                => /\ reply'.res \in StoreFaults
                   /\ FindFollow(proc[p].v, proc[p].u) = {}
                      => reply'.res = RecordNotFound
                   /\ follows' = follows
                   /\ followRequests' = followRequests
             /\ follows' # follows
                => \E r \in followRequests' :
                      /\ r.id = proc[p].id
                      /\ r.status = "ACCEPTED"
                      /\ FollowsAfter(r.senderId, r.receiverId) # {}
                      /\ FindFollow(r.senderId, r.receiverId) = {}]_vars

\* C25 witness: an accept whose request was cancelled under it has just
\* failed: the row is gone and the sender does not follow the receiver.
C25_Witness ==
    /\ reply.op = "acceptFollowRequest"
    /\ reply.res = RecordNotFound
    /\ FindRequestById(reply.id) = {}
    /\ \A f \in follows : f.followingId # reply.u
    /\ nextRequestId > 1

\* The errors the follow subsystem throws by name.
C26_NamedErrors ==
    {SelfFollowError, AlreadyFollowingError, TargetNotFoundError,
     RequestAlreadyPendingError, RequestNotFoundError, UnauthorizedError,
     NotPendingError, CancelNotPendingError, NotFollowingError, NotAFollowerError}

\* C26: a call of the follow subsystem that fails with one of its named errors
\* has written nothing: the step that throws leaves follows and
\* follow_requests as they are, and so does every step after which a handler
\* is still running, all guards coming before the one write of a call.  A
\* step that changes either table is the last step of its call and ends in
\* success or in a fault of the store, never in a named error.
C26_NamedFailuresWriteNothing ==
    [][/\ (reply = NoReply /\ reply' # NoReply /\ reply'.res \in C26_NamedErrors)
          => (follows' = follows /\ followRequests' = followRequests)
       /\ \A p \in Procs :
             (proc'[p] # proc[p] /\ proc'[p].pc # "idle")
             => (follows' = follows /\ followRequests' = followRequests)
       /\ (follows' # follows \/ followRequests' # followRequests)
          => /\ reply' # NoReply
             /\ reply'.res \in {"follow", "request", "true"}
             /\ \E p \in Procs : proc[p].pc # "idle" /\ proc'[p].pc = "idle"]_vars

\* C26 witness: a receiver's accept of a request already answered has just
\* been refused as not pending, with rows in both tables.
C26_Witness ==
    /\ reply.op = "acceptFollowRequest"
    /\ reply.res = NotPendingError
    /\ follows # {}
    /\ followRequests # {}

\* ---------------------------------------------------------------------------
\* C27: a user created through createUser is private, and no operation of the
\* user, follow or pin services, updateProfile included, changes any user's
\* isPrivate; so a followUser toward a user who signed up never answers
\* "follow" and never adds an edge: it answers "request" or throws, and an
\* edge toward such a user comes from acceptFollowRequest alone.
\* ---------------------------------------------------------------------------
C27_Created == DOMAIN users \ Seeded

C27_Throws ==
    {SelfFollowError, AlreadyFollowingError, TargetNotFoundError,
     RequestAlreadyPendingError} \cup StoreFaults

C27_CreatedUsersStayPrivate ==
    [][/\ \A u \in DOMAIN users' \ DOMAIN users : users'[u].isPrivate
       /\ \A u \in DOMAIN users :
             /\ u \in DOMAIN users'
             /\ users'[u].isPrivate = users[u].isPrivate
       /\ \A u \in C27_Created : users[u].isPrivate
       /\ \A v \in C27_Created :
             /\ Returns("followUser") /\ reply'.v = v
                   => /\ follows' = follows
                      /\ reply'.res \in {"request"} \cup C27_Throws
             /\ (\E u \in UserIds : FindFollow(u, v) = {} /\ FollowsAfter(u, v) # {})
                   => Returns("acceptFollowRequest")]_vars

\* A followUser toward a user who signed up has just answered "request", after
\* that user edited the profile.
C27_Witness ==
    /\ reply.op = "followUser"
    /\ reply.res = "request"
    /\ reply.v \in DOMAIN users \ Seeded
    /\ users[reply.v].bio # Null

\* ---------------------------------------------------------------------------
\* C28: whatever the order in which likePin and unlikePin calls reach the
\* store, no (pin, user) pair has two likes.  A likePin for a pair already
\* liked returns null, not a fault, and leaves likes as it is; a likePin that
\* returns the like has added the one row of its pair; an unlikePin for a pair
\* with no like returns false and changes nothing, and one that returns true
\* has removed the like of its pair and no other.
\* ---------------------------------------------------------------------------
C28_LikesAfter(pinId, userId) == CopiesIn(NewLike(pinId, userId), likes')

C28_AtMostOneLikePerPair ==
    [][/\ \A pinId \in PinIds, userId \in UserIds :
             C28_LikesAfter(pinId, userId) <= 1
       /\ \A pinId \in PinIds, userId \in UserIds :
             /\ Returns("likePin") /\ reply'.id = pinId /\ reply'.u = userId
                   => IF CountLikes(pinId, userId) > 0
                      THEN reply'.res = NullResult /\ likes' = likes
                      ELSE \/ /\ reply'.res = "like"
                              /\ C28_LikesAfter(pinId, userId) = 1
                              /\ likes' (-) likes = SetToBag({NewLike(pinId, userId)})
                              /\ likes \sqsubseteq likes'
                           \/ /\ reply'.res = ForeignKeyViolation
                              /\ likes' = likes
             /\ Returns("unlikePin") /\ reply'.id = pinId /\ reply'.u = userId
                   => IF CountLikes(pinId, userId) = 0
                      THEN reply'.res = FalseResult /\ likes' = likes
                      ELSE /\ reply'.res = TrueResult
                           /\ C28_LikesAfter(pinId, userId) = 0
                           /\ likes' \sqsubseteq likes
                           /\ likes (-) likes' = SetToBag({NewLike(pinId, userId)})]_vars

\* A likePin for a pair already liked has just returned null.
C28_Witness ==
    /\ reply.op = "likePin"
    /\ reply.res = NullResult
    /\ CountLikes(reply.id, reply.u) = 1
    /\ BagCardinality(likes) >= 2

\* ---------------------------------------------------------------------------
\* C29: updatePin and deletePin change or remove a pin only on behalf of its
\* author.  A call that names a missing pin, or a pin of another user, the
\* caller following that user or not, ends at its lookup: updatePin with
\* null, deletePin with false, the pins as they were; only a call of the
\* author goes on to the write.  Every step that changes or removes a pin is
\* the write of a call made by the author of that pin.
\* ---------------------------------------------------------------------------
C29_Edits == {"updatePin", "deletePin"}

C29_Refusal(op) == IF op = "updatePin" THEN NullResult ELSE FalseResult

C29_OnlyAuthorEditsPin ==
    [][/\ \A op \in C29_Edits :
             Returns(op) /\ proc' = proc
                => /\ ~OwnsPin(reply'.id, reply'.u)
                   /\ reply'.res = C29_Refusal(op)
                   /\ pins' = pins
       /\ \A op \in C29_Edits :
             Returns(op) /\ ~OwnsPin(reply'.id, reply'.u)
                => /\ reply'.res \in {C29_Refusal(op), RecordNotFound}
                   /\ pins' = pins
       /\ \A q \in Procs :
             proc[q].pc = "idle" /\ proc'[q].pc \in {"updatePin_update", "deletePin_delete"}
                => /\ OwnsPin(proc'[q].id, proc'[q].u)
                   /\ pins' = pins
       /\ \A pin \in pins :
             pin \notin pins'
                => /\ \E op \in C29_Edits : Returns(op)
                   /\ reply'.id = pin.id
                   /\ reply'.u = pin.authorId
                   /\ reply'.res \in {"pin", TrueResult}]_vars

\* A follower of the author has asked to make the author's non-public pin
\* public and got null; the pin is still there and still not public.
C29_Witness ==
    /\ reply.op = "updatePin"
    /\ reply.res = NullResult
    /\ reply.v = "true"
    /\ \E pin \in FindPin(reply.id) :
          /\ pin.authorId # reply.u
          /\ FindFollow(reply.u, pin.authorId) # {}
          /\ ~pin.isPublic

====
